---- MODULE Spec2Model ----
(***************************************************************************)
(* A model of the resource command module (custom.py): the policy scope    *)
(* builder, the OData filter builder, API-version resolution, resource     *)
(* group creation and the generic resource facade (_ResourceUtils), run    *)
(* against a remote resource-management service.                           *)
(*                                                                         *)
(* Python strings are sequences of one-character strings, so that lower(), *)
(* split('/'), substring tests and formatting are computed, not assumed.   *)
(***************************************************************************)
EXTENDS Integers, Sequences, FiniteSets, TLC

VARIABLES
    pc,         \* position of the running command
    cmd,        \* the command being run
    args,       \* its arguments
    ret,        \* what it returned or raised
    calls,      \* the remote calls this invocation has issued, in order
    self,       \* the fields of the _ResourceUtils object once constructed
    fetched,    \* tag(): the local variable `resource`
    providers,  \* remote: namespace -> declared resource types
    groups,     \* remote: names of the existing resource groups
    resource    \* remote: the generic resource

vars == <<pc, cmd, args, ret, calls, self, fetched, providers, groups, resource>>

----------------------------------------------------------------------------
(* Bounds of the model *)

\* longest api_versions list a provider declares for one resource type
MaxVersions == 2
\* most resource types a provider declares
MaxTypes == 2

----------------------------------------------------------------------------
(* Python values *)

\* None: a one-element sequence that is no string of characters
None == <<"None">>

\* bool(x) of an optional string
Truthy(s) == s # None /\ s # <<>>

UpperCase == <<"A", "B", "C", "D", "E", "F", "G", "H", "I", "J", "K", "L", "M",
               "N", "O", "P", "Q", "R", "S", "T", "U", "V", "W", "X", "Y", "Z">>
LowerCase == <<"a", "b", "c", "d", "e", "f", "g", "h", "i", "j", "k", "l", "m",
               "n", "o", "p", "q", "r", "s", "t", "u", "v", "w", "x", "y", "z">>

\* the lower-case letter of each upper-case letter
ToLower == [c \in {UpperCase[i] : i \in 1..Len(UpperCase)} |->
               LowerCase[CHOOSE i \in 1..Len(UpperCase) : UpperCase[i] = c]]

LowerChar(c) == IF c \in DOMAIN ToLower THEN ToLower[c] ELSE c

\* str.lower()
Lower(s) == [i \in 1..Len(s) |-> LowerChar(s[i])]

\* `sub in s`
Contains(s, sub) ==
    \E i \in 1..(Len(s) - Len(sub) + 1) : SubSeq(s, i, i + Len(sub) - 1) = sub

\* position of the first c in s, 0 when there is none
RECURSIVE FindFrom(_, _, _)
FindFrom(s, c, i) ==
    IF i > Len(s) THEN 0
    ELSE IF s[i] = c THEN i
    ELSE FindFrom(s, c, i + 1)

\* s.split(c): the list of the pieces between the separators
RECURSIVE Split(_, _)
Split(s, c) ==
    LET i == FindFrom(s, c, 1)
    IN  IF i = 0 THEN <<s>>
        ELSE <<SubSeq(s, 1, i - 1)>> \o Split(SubSeq(s, i + 1, Len(s)), c)

\* sep.join(parts)
RECURSIVE Join(_, _)
Join(parts, sep) ==
    IF parts = <<>> THEN <<>>
    ELSE IF Len(parts) = 1 THEN parts[1]
    ELSE parts[1] \o sep \o Join(Tail(parts), sep)

\* what a function call ends with
Returned(v) == [kind |-> "value", val |-> v, err |-> "", res |-> [exists |-> FALSE]]
Raised(e)   == [kind |-> "error", val |-> None, err |-> e, res |-> [exists |-> FALSE]]
NoResult    == [kind |-> "none", val |-> None, err |-> "", res |-> [exists |-> FALSE]]

----------------------------------------------------------------------------
(* String literals of the source *)

PREVIEW == <<"p", "r", "e", "v", "i", "e", "w">>
SUBSCRIPTIONS_PREFIX == <<"/", "s", "u", "b", "s", "c", "r", "i", "p", "t", "i", "o", "n", "s", "/">>
RESOURCE_GROUPS_INFIX == <<"/", "r", "e", "s", "o", "u", "r", "c", "e", "G", "r", "o", "u", "p", "s", "/">>
PROVIDERS_INFIX == <<"/", "p", "r", "o", "v", "i", "d", "e", "r", "s", "/">>
FMT_RESOURCE_GROUP_EQ == <<"r", "e", "s", "o", "u", "r", "c", "e", "G", "r", "o", "u", "p", " ", "e", "q", " ", "'">>
FMT_NAME_EQ == <<"n", "a", "m", "e", " ", "e", "q", " ", "'">>
FMT_LOCATION_EQ == <<"l", "o", "c", "a", "t", "i", "o", "n", " ", "e", "q", " ", "'">>
FMT_RESOURCE_TYPE_EQ == <<"r", "e", "s", "o", "u", "r", "c", "e", "T", "y", "p", "e", " ", "e", "q", " ">>
FMT_STARTSWITH_TAGNAME == <<"s", "t", "a", "r", "t", "s", "w", "i", "t", "h", "(", "t", "a", "g", "n", "a", "m", "e", ",", " ", "'">>
FMT_TAGNAME_EQ == <<"t", "a", "g", "n", "a", "m", "e", " ", "e", "q", " ", "'">>
FMT_TAGVALUE_EQ == <<"t", "a", "g", "v", "a", "l", "u", "e", " ", "e", "q", " ", "'">>
AND_SEP == <<" ", "a", "n", "d", " ">>
QUOTE == <<"'">>
SLASH == "/"
STAR == "*"

\* the error kinds, named as the specification names them
RedundantResourceGroup     == "RedundantResourceGroup"
ConflictingFilter          == "ConflictingFilter"
UnknownResourceType        == "UnknownResourceType"
NoApiVersionAvailable      == "NoApiVersionAvailable"
AmbiguousResourceReference == "AmbiguousResourceReference"
InvalidResourceId          == "InvalidResourceId"
AlreadyExists              == "AlreadyExists"
\* an error of the remote service or of its client library
RemoteError                == "RemoteError"
\* None.lower(): an AttributeError of the interpreter
AttributeError             == "AttributeError"

----------------------------------------------------------------------------
(* _build_policy_scope *)

\* _build_policy_scope letting an explicit scope win over a group
ScopeIgnoringGroup(subscription_id, resource_group_name, scope) ==
    LET subscription_scope == SUBSCRIPTIONS_PREFIX \o subscription_id
    IN  IF Truthy(scope) THEN Returned(scope)
        ELSE IF Truthy(resource_group_name)
        THEN Returned(subscription_scope \o RESOURCE_GROUPS_INFIX \o resource_group_name)
        ELSE Returned(subscription_scope)

\* _build_policy_scope appending the group name without its '/resourceGroups/'
ScopeWithoutGroupSegment(subscription_id, resource_group_name, scope) ==
    LET subscription_scope == SUBSCRIPTIONS_PREFIX \o subscription_id
    IN  IF Truthy(scope)
        THEN IF Truthy(resource_group_name)
             THEN Raised(RedundantResourceGroup)
             ELSE Returned(scope)
        ELSE IF Truthy(resource_group_name)
        THEN Returned(subscription_scope \o <<SLASH>> \o resource_group_name)
        ELSE Returned(subscription_scope)

_build_policy_scope(subscription_id, resource_group_name, scope) ==
    LET subscription_scope == SUBSCRIPTIONS_PREFIX \o subscription_id
    IN  IF Truthy(scope)
        THEN IF Truthy(resource_group_name)
             THEN Raised(RedundantResourceGroup)
             ELSE Returned(scope)
        ELSE IF Truthy(resource_group_name)
        THEN Returned(subscription_scope \o RESOURCE_GROUPS_INFIX \o resource_group_name)
        ELSE Returned(subscription_scope)

----------------------------------------------------------------------------
(* _list_resources_odata_filter_builder *)

\* A tag argument is None, a dict (a list of key/value items) or a plain string.
TagNone       == [dict |-> FALSE, items |-> <<>>, str |-> None]
TagStr(s)     == [dict |-> FALSE, items |-> <<>>, str |-> s]
TagDict(k, v) == [dict |-> TRUE, items |-> <<[key |-> k, value |-> v]>>, str |-> None]
TagEmptyDict  == [dict |-> TRUE, items |-> <<>>, str |-> None]

\* bool(tag)
TagTruthy(tag) == IF tag.dict THEN tag.items # <<>> ELSE Truthy(tag.str)

\* TagClauses adding the value clause after a prefix clause too
TagClausesValueAlways(tag_name, tag_value) ==
    IF tag_name # <<>>
    THEN (IF tag_name[Len(tag_name)] = STAR
          THEN << FMT_STARTSWITH_TAGNAME \o SubSeq(tag_name, 1, Len(tag_name) - 1) \o QUOTE >>
          ELSE << FMT_TAGNAME_EQ \o tag_name \o QUOTE >>)
         \o (IF tag_value # <<>>
             THEN << FMT_TAGVALUE_EQ \o tag_value \o QUOTE >>
             ELSE <<>>)
    ELSE <<>>

\* the clauses for the tag, given tag_name and tag_value
TagClauses(tag_name, tag_value) ==
    IF tag_name # <<>>
    THEN IF tag_name[Len(tag_name)] = STAR
         THEN << FMT_STARTSWITH_TAGNAME \o SubSeq(tag_name, 1, Len(tag_name) - 1) \o QUOTE >>
         ELSE << FMT_TAGNAME_EQ \o tag_name \o QUOTE >>
              \o (IF tag_value # <<>>
                  THEN << FMT_TAGVALUE_EQ \o tag_value \o QUOTE >>
                  ELSE <<>>)
    ELSE <<>>

\* TagConflicts looking at the name only
TagConflictsNameOnly(name, location) == Truthy(name)

\* whether the tag filter is refused next to the other filters
TagConflicts(name, location) == Truthy(name) \/ Truthy(location)

_list_resources_odata_filter_builder(resource_group_name, resource_provider_namespace, resource_type, name, tag, location) ==
    LET f1 == IF Truthy(resource_group_name)
              THEN << FMT_RESOURCE_GROUP_EQ \o resource_group_name \o QUOTE >>
              ELSE <<>>
        f2 == IF Truthy(name) THEN << FMT_NAME_EQ \o name \o QUOTE >> ELSE <<>>
        f3 == IF Truthy(location) THEN << FMT_LOCATION_EQ \o location \o QUOTE >> ELSE <<>>
        f4 == IF Truthy(resource_type)
              THEN IF Truthy(resource_provider_namespace)
                   THEN << FMT_RESOURCE_TYPE_EQ \o QUOTE \o resource_provider_namespace
                           \o <<SLASH>> \o resource_type \o QUOTE >>
                   ELSE << FMT_RESOURCE_TYPE_EQ \o QUOTE \o resource_type \o QUOTE >>
              ELSE <<>>
        tag_name  == IF tag.dict THEN tag.items[1].key ELSE tag.str
        tag_value == IF tag.dict THEN tag.items[1].value ELSE <<>>
    IN  IF TagTruthy(tag)
        THEN IF TagConflicts(name, location)
             THEN Raised(ConflictingFilter)
             ELSE Returned(Join(f1 \o f2 \o f3 \o f4 \o TagClauses(tag_name, tag_value),
                                AND_SEP))
        ELSE Returned(Join(f1 \o f2 \o f3 \o f4, AND_SEP))

----------------------------------------------------------------------------
(* parse_resource_id (azure.cli.core.commands.arm): the parts of           *)
(* /subscriptions/{sub}/resourceGroups/{rg}/providers/{namespace}/{type}/  *)
(* {name}[/{childType}/{childName}[/{grandchildType}/{grandchildName}]]    *)

KW_SUBSCRIPTIONS   == SubSeq(SUBSCRIPTIONS_PREFIX, 2, Len(SUBSCRIPTIONS_PREFIX) - 1)
KW_RESOURCE_GROUPS == SubSeq(RESOURCE_GROUPS_INFIX, 2, Len(RESOURCE_GROUPS_INFIX) - 1)
KW_PROVIDERS       == SubSeq(PROVIDERS_INFIX, 2, Len(PROVIDERS_INFIX) - 1)

\* the fewest '/'-separated pieces of an id: '', subscriptions, sub,
\* resourceGroups, rg, providers, namespace, type, name
MinIdSegments == 9

is_valid_resource_id(rid) ==
    LET p == Split(rid, SLASH)
    IN  /\ Len(p) >= MinIdSegments
        /\ p[1] = <<>>
        /\ p[2] = KW_SUBSCRIPTIONS
        /\ p[4] = KW_RESOURCE_GROUPS
        /\ p[6] = KW_PROVIDERS
        /\ \A i \in 2..Len(p) : p[i] # <<>>

\* the dict of a valid id; a level that is absent has no key (None here)
parse_resource_id(rid) ==
    LET p == Split(rid, SLASH)
        Seg(i) == IF Len(p) >= i THEN p[i] ELSE None
        child == Len(p) >= MinIdSegments + 2
        grandchild == Len(p) >= MinIdSegments + 4
    IN  [subscription    |-> p[3],
         resource_group  |-> p[5],
         namespace       |-> p[7],
         type            |-> p[8],
         name            |-> p[9],
         child_type      |-> IF child THEN p[10] ELSE None,
         child_name      |-> IF child THEN p[11] ELSE None,
         grandchild_type |-> IF grandchild THEN p[12] ELSE None,
         grandchild_name |-> IF grandchild THEN p[13] ELSE None]

----------------------------------------------------------------------------
(* _ResourceUtils._resolve_api_version and _resolve_api_version_by_id *)

\* the type the catalog is searched for: the first segment of the parent
\* path when there is one, else the resource type
EffectiveType(parent_resource_path, resource_type) ==
    IF Truthy(parent_resource_path)
    THEN Split(parent_resource_path, SLASH)[1]
    ELSE resource_type

\* MatchingTypes comparing the names as they are written
MatchingTypesCaseSensitive(resource_types, resource_type_str) ==
    LET Same(t) == t.resource_type = resource_type_str
    IN  SelectSeq(resource_types, Same)

\* rt: the declared types whose name is resource_type_str, whatever the case
MatchingTypes(resource_types, resource_type_str) ==
    LET Same(t) == Lower(t.resource_type) = Lower(resource_type_str)
    IN  SelectSeq(resource_types, Same)

\* SelectVersion taking the first declared version, preview or not
SelectVersionFirstDeclared(api_versions) == api_versions[1]

\* the version taken from a non-empty api_versions list
SelectVersion(api_versions) ==
    LET NotPreview(v) == ~Contains(Lower(v), PREVIEW)
        npv == SelectSeq(api_versions, NotPreview)
    IN  IF npv # <<>> THEN npv[1] ELSE api_versions[1]

\* the outcome for the matches rt
ResolveMatches(rt) ==
    IF rt = <<>> THEN Raised(UnknownResourceType)
    ELSE IF Len(rt) = 1 /\ rt[1].api_versions # <<>>
    THEN Returned(SelectVersion(rt[1].api_versions))
    ELSE Raised(NoApiVersionAvailable)

\* prov is what the remote service declares, namespace -> resource types
_resolve_api_version(prov, resource_provider_namespace, parent_resource_path, resource_type) ==
    IF resource_provider_namespace \notin DOMAIN prov
    THEN Raised(RemoteError)
    ELSE LET resource_types == prov[resource_provider_namespace]
             resource_type_str == EffectiveType(parent_resource_path, resource_type)
         IN  IF resource_types # <<>> /\ resource_type_str = None
             THEN Raised(AttributeError)
             ELSE ResolveMatches(MatchingTypes(resource_types, resource_type_str))

\* ParentAndType resolving against the resource's own (leaf) type
ParentAndTypeLeaf(parts) ==
    IF Truthy(parts.grandchild_type)
    THEN [parent |-> None, resource_type |-> parts.grandchild_type]
    ELSE IF Truthy(parts.child_type)
    THEN [parent |-> None, resource_type |-> parts.child_type]
    ELSE [parent |-> None, resource_type |-> parts.type]

\* the parent path and the resource type _resolve_api_version_by_id derives
ParentAndType(parts) ==
    IF Truthy(parts.grandchild_type)
    THEN [parent |-> parts.type \o <<SLASH>> \o parts.name \o <<SLASH>>
                     \o parts.child_type \o <<SLASH>> \o parts.child_name,
          resource_type |-> parts.grandchild_type]
    ELSE IF Truthy(parts.child_type)
    THEN [parent |-> parts.type \o <<SLASH>> \o parts.name,
          resource_type |-> parts.child_type]
    ELSE [parent |-> None, resource_type |-> parts.type]

_resolve_api_version_by_id(prov, resource_id) ==
    IF ~is_valid_resource_id(resource_id)
    THEN Raised(InvalidResourceId)
    ELSE LET parts == parse_resource_id(resource_id)
             pt == ParentAndType(parts)
         IN  _resolve_api_version(prov, parts.namespace, pt.parent, pt.resource_type)

----------------------------------------------------------------------------
(* The remote service *)

\* a generic resource that does not exist / the absence of a request body
NoResource == [exists |-> FALSE]

\* how a call names its resource: by id, or by coordinates
ById(id, api_version) ==
    [by |-> "id", id |-> id, group |-> None, namespace |-> None, parent |-> None,
     type |-> None, name |-> None, api_version |-> api_version]
ByCoordinates(group, namespace, parent, type, name, api_version) ==
    [by |-> "coordinates", id |-> None, group |-> group, namespace |-> namespace,
     parent |-> parent, type |-> type, name |-> name, api_version |-> api_version]
NoAddress == ById(None, None)

\* one remote call: the operation, the resource it names, the group or
\* namespace it names, its request body and its answer (check_existence's
\* answer, else whether the call succeeded)
Call(op, addr, name, payload, result) ==
    [op |-> op, addr |-> addr, name |-> name, payload |-> payload, result |-> result]

\* the one generic resource the service holds: namespace N, type vm, name a
\* in group g of subscription s
NS_N   == <<"N">>
T_vm   == <<"v", "m">>
T_VM   == <<"V", "M">>
T_ext  == <<"e", "x", "t">>
T_gc   == <<"g", "c">>
T_no   == <<"n", "o">>
T_nv   == <<"n", "v">>
N_a    == <<"a">>
N_b    == <<"b">>
N_c    == <<"c">>
G_g    == <<"g">>
G_h    == <<"h">>
SUB_s  == <<"s">>

GroupPath == SUBSCRIPTIONS_PREFIX \o SUB_s \o RESOURCE_GROUPS_INFIX \o G_g
ID_TOP == GroupPath \o PROVIDERS_INFIX \o NS_N \o <<SLASH>> \o T_vm \o <<SLASH>> \o N_a
ID_CHILD == ID_TOP \o <<SLASH>> \o T_ext \o <<SLASH>> \o N_b
ID_GRANDCHILD == ID_CHILD \o <<SLASH>> \o T_gc \o <<SLASH>> \o N_c
\* a child whose own type is declared first-level too
ID_SWAPPED == GroupPath \o PROVIDERS_INFIX \o NS_N \o <<SLASH>> \o T_ext \o <<SLASH>> \o N_b
              \o <<SLASH>> \o T_VM \o <<SLASH>> \o N_a
ID_UNKNOWN == GroupPath \o PROVIDERS_INFIX \o NS_N \o <<SLASH>> \o T_no \o <<SLASH>> \o N_a
ID_BAD == <<"b", "a", "d">>

\* whether addr names the resource the service holds (names compare
\* case-insensitively at the service)
Targets(addr) ==
    IF addr.by = "id"
    THEN Lower(addr.id) = Lower(ID_TOP)
    ELSE /\ addr.group = G_g
         /\ addr.namespace # None /\ Lower(addr.namespace) = Lower(NS_N)
         /\ addr.parent = <<>>
         /\ addr.type # None /\ Lower(addr.type) = Lower(T_vm)
         /\ addr.name = N_a

----------------------------------------------------------------------------
(* Inputs *)

V_2018 == <<"2", "0", "1", "8">>
V_2017 == <<"2", "0", "1", "7">>
V_2019_PREVIEW == <<"2", "0", "1", "9", "-", "P", "r", "e", "v", "i", "e", "w">>
ApiVersions == {V_2018, V_2017, V_2019_PREVIEW}

\* the sequences over S without repetition, of length at most n
DistinctSeqs(S, n) ==
    UNION { { q \in [1..k -> S] : \A i, j \in 1..k : i # j => q[i] # q[j] } : k \in 0..n }

VersionLists == DistinctSeqs(ApiVersions, MaxVersions)
DeclaredTypeNames == {T_VM, T_ext}
ResourceTypeEntries ==
    { [resource_type |-> t, api_versions |-> v] : t \in DeclaredTypeNames, v \in VersionLists }
\* what a provider may declare: a list of at most MaxTypes resource types
Catalogs == UNION { [1..k -> ResourceTypeEntries] : k \in 0..MaxTypes }

\* the declaration the command runs are checked against
DefaultCatalog ==
    << [resource_type |-> T_VM, api_versions |-> <<V_2019_PREVIEW, V_2018>>],
       [resource_type |-> T_ext, api_versions |-> <<V_2017>>],
       [resource_type |-> T_nv, api_versions |-> <<>>] >>

ResolveInput(n, p, t) == [namespace |-> n, parent |-> p, resource_type |-> t]
P_vm_a == T_vm \o <<SLASH>> \o N_a
P_ext_b_VM_a == T_ext \o <<SLASH>> \o N_b \o <<SLASH>> \o T_VM \o <<SLASH>> \o N_a
ResolveInputs ==
    { ResolveInput(NS_N, None, T_vm), ResolveInput(NS_N, None, T_ext),
      ResolveInput(NS_N, None, T_no), ResolveInput(NS_N, <<>>, T_VM),
      ResolveInput(NS_N, P_vm_a, T_ext), ResolveInput(NS_N, P_vm_a, T_no),
      ResolveInput(NS_N, P_ext_b_VM_a, T_vm), ResolveInput(NS_N, T_no, T_vm),
      ResolveInput(<<"M">>, None, T_vm) }
ResolveIds == {ID_TOP, ID_CHILD, ID_GRANDCHILD, ID_SWAPPED, ID_BAD}

ScopeInputs ==
    { [subscription_id |-> s, resource_group_name |-> g, scope |-> x] :
        s \in {SUB_s, <<"t">>},
        g \in {None, <<>>, G_g},
        x \in {None, <<>>, GroupPath, <<SLASH>> \o N_a} }

TagInputs ==
    { TagNone, TagEmptyDict, TagStr(<<>>), TagStr(<<"k">>), TagStr(<<"k", STAR>>),
      TagDict(<<"k">>, <<"v">>), TagDict(<<"k">>, <<>>),
      TagDict(<<"k", STAR>>, <<"v">>), TagDict(<<"k", STAR>>, <<>>),
      TagDict(<<STAR>>, <<>>), TagDict(<<>>, <<"v">>) }
FilterInputs ==
    { [resource_group_name |-> g, resource_provider_namespace |-> n, resource_type |-> t,
       name |-> m, tag |-> tg, location |-> l] :
        g \in {None, G_g}, n \in {None, NS_N}, t \in {None, T_vm},
        m \in {None, <<>>, N_a}, tg \in TagInputs, l \in {None, <<"w">>} }

GroupNames == {G_g, G_h}

\* tag sets and property bags of a generic resource, as opaque values
TagSets == {"tags0", "tags1", "tags2"}
PropertyBags == {"properties0", "properties1"}
InitialResource ==
    [exists |-> TRUE, location |-> "westus", tags |-> "tags0", plan |-> "plan0",
     properties |-> "properties0", kind |-> "kind0", managed_by |-> "manager0",
     sku |-> "sku0", identity |-> "identity0"]

FacadeArg(g, n, p, t, m, id, v) ==
    [resource_group_name |-> g, resource_provider_namespace |-> n,
     parent_resource_path |-> p, resource_type |-> t, resource_name |-> m,
     resource_id |-> id, api_version |-> v]
FacadeInputs ==
    { FacadeArg(None, None, None, None, None, ID_TOP, None),
      FacadeArg(None, None, None, None, None, ID_TOP, V_2017),
      FacadeArg(None, None, None, None, None, ID_CHILD, None),
      FacadeArg(None, None, None, None, None, ID_UNKNOWN, None),
      FacadeArg(None, None, None, None, None, ID_BAD, None),
      FacadeArg(None, None, None, None, None, ID_BAD, V_2017),
      FacadeArg(G_g, NS_N, None, T_vm, N_a, None, None),
      FacadeArg(G_g, NS_N, <<>>, T_vm, N_a, None, V_2017),
      FacadeArg(G_g, None, None, NS_N \o <<SLASH>> \o T_vm, N_a, None, None),
      FacadeArg(G_g, None, None, NS_N \o <<SLASH>> \o T_vm \o <<SLASH>> \o T_ext, N_a, None, None),
      FacadeArg(G_g, NS_N, T_vm \o <<SLASH>> \o N_a, T_ext, N_b, None, None),
      FacadeArg(G_g, NS_N, None, T_no, N_a, None, None),
      FacadeArg(G_g, NS_N, None, T_nv, N_a, None, None),
      FacadeArg(G_g, NS_N, None, None, N_a, None, None),
      FacadeArg(None, None, None, None, N_a, None, None),
      FacadeArg(None, None, None, None, N_a, ID_TOP, None),
      FacadeArg(G_g, NS_N, None, T_vm, N_a, ID_TOP, None),
      FacadeArg(None, None, None, None, None, None, None),
      FacadeArg(None, None, None, None, None, <<>>, V_2017) }

----------------------------------------------------------------------------
(* _ResourceUtils: construction *)

NoArgs == [none |-> TRUE]
NoSelf == FacadeArg(None, None, None, None, None, None, None)

\* AnyCoordinate without the resource name
AnyCoordinateNoName(a) ==
    \/ Truthy(a.resource_group_name)
    \/ Truthy(a.resource_type)
    \/ Truthy(a.parent_resource_path)
    \/ Truthy(a.resource_provider_namespace)

\* bool(resource_group_name or resource_type or parent_resource_path or
\*      resource_provider_namespace or resource_name)
AnyCoordinate(a) ==
    \/ Truthy(a.resource_group_name)
    \/ Truthy(a.resource_type)
    \/ Truthy(a.parent_resource_path)
    \/ Truthy(a.resource_provider_namespace)
    \/ Truthy(a.resource_name)

\* the check __init__ opens with
AmbiguousReference(a) == Truthy(a.resource_id) = AnyCoordinate(a)

\* a resource type given as 'namespace/type' is split
NormalizeType(a) ==
    IF /\ Truthy(a.resource_type)
       /\ ~Truthy(a.resource_provider_namespace)
       /\ ~Truthy(a.parent_resource_path)
    THEN LET parts == Split(a.resource_type, SLASH)
         IN  IF Len(parts) > 1
             THEN [a EXCEPT !.resource_provider_namespace = parts[1],
                            !.resource_type = parts[2]]
             ELSE a
    ELSE a

\* the api version of the object: the caller's, else the resolved one
\* (a is the arguments after NormalizeType)
ConstructedApiVersion(prov, a) ==
    IF a.api_version # None THEN Returned(a.api_version)
    ELSE IF Truthy(a.resource_id)
    THEN _resolve_api_version_by_id(prov, a.resource_id)
    ELSE _resolve_api_version(prov, a.resource_provider_namespace,
                              a.parent_resource_path, a.resource_type)

\* the providers.get call that resolution issues, if it gets that far
ConstructionCalls(a) ==
    IF a.api_version # None THEN <<>>
    ELSE IF Truthy(a.resource_id)
    THEN IF is_valid_resource_id(a.resource_id)
         THEN << Call("providers.get", NoAddress,
                      parse_resource_id(a.resource_id).namespace, NoResource, TRUE) >>
         ELSE <<>>
    ELSE << Call("providers.get", NoAddress, a.resource_provider_namespace,
                 NoResource, TRUE) >>

\* how get_resource, delete and tag name the resource
SelfAddress(obj) ==
    IF Truthy(obj.resource_id)
    THEN ById(obj.resource_id, obj.api_version)
    ELSE ByCoordinates(obj.resource_group_name, obj.resource_provider_namespace,
                       IF Truthy(obj.parent_resource_path)
                       THEN obj.parent_resource_path ELSE <<>>,
                       obj.resource_type, obj.resource_name, obj.api_version)

\* TagParameters that does not copy the properties
TagParametersNoProperties(res, tags) ==
    [exists |-> TRUE, location |-> res.location, tags |-> tags, plan |-> res.plan,
     properties |-> "none", kind |-> res.kind, managed_by |-> res.managed_by,
     sku |-> res.sku, identity |-> res.identity]

\* the GenericResource tag() sends
TagParameters(res, tags) ==
    [exists |-> TRUE, location |-> res.location, tags |-> tags, plan |-> res.plan,
     properties |-> res.properties, kind |-> res.kind, managed_by |-> res.managed_by,
     sku |-> res.sku, identity |-> res.identity]

FacadeCommands == {"show_resource", "delete_resource", "tag_resource"}

----------------------------------------------------------------------------
(* The commands *)

Init ==
    /\ pc = "idle"
    /\ cmd = "none"
    /\ args = NoArgs
    /\ ret = NoResult
    /\ calls = <<>>
    /\ self = NoSelf
    /\ fetched = NoResource
    /\ providers = [n \in {NS_N} |-> DefaultCatalog]
    /\ groups = {G_g}
    /\ resource = InitialResource

\* a policy-assignment command builds its scope
BuildPolicyScope ==
    /\ pc = "idle"
    /\ \E a \in ScopeInputs :
        /\ cmd' = "_build_policy_scope"
        /\ args' = a
        /\ ret' = _build_policy_scope(a.subscription_id, a.resource_group_name, a.scope)
    /\ pc' = "done"
    /\ UNCHANGED <<calls, self, fetched, providers, groups, resource>>

\* list_resources builds its filter
BuildODataFilter ==
    /\ pc = "idle"
    /\ \E a \in FilterInputs :
        /\ cmd' = "_list_resources_odata_filter_builder"
        /\ args' = a
        /\ ret' = _list_resources_odata_filter_builder(
                      a.resource_group_name, a.resource_provider_namespace,
                      a.resource_type, a.name, a.tag, a.location)
    /\ pc' = "done"
    /\ UNCHANGED <<calls, self, fetched, providers, groups, resource>>

\* create_resource_group going on to create whatever check_existence answers
create_resource_group_unchecked ==
    /\ pc = "idle"
    /\ \E name \in GroupNames :
        /\ cmd' = "create_resource_group"
        /\ args' = [resource_group_name |-> name]
        /\ calls' = << Call("resource_groups.check_existence", NoAddress, name,
                            NoResource, name \in groups) >>
        /\ ret' = NoResult
        /\ pc' = "group_checked"
    /\ UNCHANGED <<self, fetched, providers, groups, resource>>

\* create_resource_group, up to the answer of check_existence
create_resource_group ==
    /\ pc = "idle"
    /\ \E name \in GroupNames :
        /\ cmd' = "create_resource_group"
        /\ args' = [resource_group_name |-> name]
        /\ calls' = << Call("resource_groups.check_existence", NoAddress, name,
                            NoResource, name \in groups) >>
        /\ IF name \in groups
           THEN /\ ret' = Raised(AlreadyExists)
                /\ pc' = "done"
           ELSE /\ ret' = NoResult
                /\ pc' = "group_checked"
    /\ UNCHANGED <<self, fetched, providers, groups, resource>>

\* create_resource_group, the create_or_update call
create_resource_group_create ==
    /\ pc = "group_checked"
    /\ calls' = Append(calls, Call("resource_groups.create_or_update", NoAddress,
                                   args.resource_group_name, NoResource, TRUE))
    /\ groups' = groups \cup {args.resource_group_name}
    /\ ret' = Returned(args.resource_group_name)
    /\ pc' = "done"
    /\ UNCHANGED <<cmd, args, self, fetched, providers, resource>>

\* show_resource, delete_resource, tag_resource: _ResourceUtils(...)
ResourceUtils_init ==
    /\ pc = "idle"
    /\ \E c \in FacadeCommands, a \in FacadeInputs :
       \E t \in (IF c = "tag_resource" THEN TagSets ELSE {"none"}) :
        LET n == NormalizeType(a)
            v == ConstructedApiVersion(providers, n)
        IN  /\ cmd' = c
            /\ args' = [call |-> a, tags |-> t]
            /\ IF AmbiguousReference(a)
               THEN /\ ret' = Raised(AmbiguousResourceReference)
                    /\ calls' = <<>>
                    /\ self' = NoSelf
                    /\ pc' = "done"
               ELSE IF v.kind = "error"
               THEN /\ ret' = v
                    /\ calls' = ConstructionCalls(n)
                    /\ self' = NoSelf
                    /\ pc' = "done"
               ELSE /\ ret' = NoResult
                    /\ calls' = ConstructionCalls(n)
                    /\ self' = [n EXCEPT !.api_version = v.val]
                    /\ pc' = "constructed"
    /\ UNCHANGED <<fetched, providers, groups, resource>>

\* get_resource: for show_resource the result, for tag() its first step
get_resource ==
    /\ pc = "constructed"
    /\ cmd \in {"show_resource", "tag_resource"}
    /\ LET addr == SelfAddress(self)
           found == Targets(addr) /\ resource.exists
       IN  /\ calls' = Append(calls, Call(IF addr.by = "id" THEN "resources.get_by_id"
                                          ELSE "resources.get",
                                          addr, None, NoResource, found))
           /\ IF ~found
              THEN /\ ret' = Raised(RemoteError)
                   /\ fetched' = fetched
                   /\ pc' = "done"
              ELSE IF cmd = "show_resource"
              THEN /\ ret' = [Returned(None) EXCEPT !.res = resource]
                   /\ fetched' = fetched
                   /\ pc' = "done"
              ELSE /\ ret' = ret
                   /\ fetched' = resource
                   /\ pc' = "tag_fetched"
    /\ UNCHANGED <<cmd, args, self, providers, groups, resource>>

\* delete() finding out that the id is no id only after the call was sent
delete_validating_late ==
    /\ pc = "constructed"
    /\ cmd = "delete_resource"
    /\ LET addr == SelfAddress(self)
       IN  /\ calls' = Append(calls, Call(IF addr.by = "id" THEN "resources.delete_by_id"
                                          ELSE "resources.delete",
                                          addr, None, NoResource, TRUE))
           /\ resource' = IF Targets(addr) THEN NoResource ELSE resource
           /\ ret' = IF addr.by = "id" /\ ~is_valid_resource_id(addr.id)
                     THEN Raised(InvalidResourceId)
                     ELSE Returned(None)
    /\ pc' = "done"
    /\ UNCHANGED <<cmd, args, self, fetched, providers, groups>>

\* delete
delete ==
    /\ pc = "constructed"
    /\ cmd = "delete_resource"
    /\ LET addr == SelfAddress(self)
       IN  /\ calls' = Append(calls, Call(IF addr.by = "id" THEN "resources.delete_by_id"
                                          ELSE "resources.delete",
                                          addr, None, NoResource, TRUE))
           /\ resource' = IF Targets(addr) THEN NoResource ELSE resource
    /\ ret' = Returned(None)
    /\ pc' = "done"
    /\ UNCHANGED <<cmd, args, self, fetched, providers, groups>>

\* tag() whose update carries a version token: the service refuses it when
\* the resource is no longer as it was fetched
tag_if_unchanged ==
    /\ pc = "tag_fetched"
    /\ LET addr == SelfAddress(self)
           parameters == TagParameters(fetched, args.tags)
           current == resource = fetched
       IN  /\ calls' = Append(calls, Call(IF addr.by = "id"
                                          THEN "resources.create_or_update_by_id"
                                          ELSE "resources.create_or_update",
                                          addr, None, parameters, current))
           /\ resource' = IF Targets(addr) /\ current THEN parameters ELSE resource
           /\ ret' = IF current THEN [Returned(None) EXCEPT !.res = parameters]
                     ELSE Raised(RemoteError)
    /\ pc' = "done"
    /\ UNCHANGED <<cmd, args, self, fetched, providers, groups>>

\* tag(): the update, after get_resource
tag ==
    /\ pc = "tag_fetched"
    /\ LET addr == SelfAddress(self)
           parameters == TagParameters(fetched, args.tags)
       IN  /\ calls' = Append(calls, Call(IF addr.by = "id"
                                          THEN "resources.create_or_update_by_id"
                                          ELSE "resources.create_or_update",
                                          addr, None, parameters, TRUE))
           /\ resource' = IF Targets(addr) THEN parameters ELSE resource
           /\ ret' = [Returned(None) EXCEPT !.res = parameters]
    /\ pc' = "done"
    /\ UNCHANGED <<cmd, args, self, fetched, providers, groups>>

\* another client of the service changes the resource
ExternalWrite ==
    /\ resource.exists
    /\ \/ \E p \in PropertyBags \ {resource.properties} :
            resource' = [resource EXCEPT !.properties = p]
       \/ \E t \in TagSets \ {resource.tags} :
            resource' = [resource EXCEPT !.tags = t]
    /\ UNCHANGED <<pc, cmd, args, ret, calls, self, fetched, providers, groups>>

\* the command has ended; the next invocation starts afresh
Exit ==
    /\ pc = "done"
    /\ pc' = "idle"
    /\ cmd' = "none"
    /\ args' = NoArgs
    /\ ret' = NoResult
    /\ calls' = <<>>
    /\ self' = NoSelf
    /\ fetched' = NoResource
    /\ UNCHANGED <<providers, groups, resource>>

Next ==
    \/ BuildPolicyScope
    \/ BuildODataFilter
    \/ create_resource_group
    \/ create_resource_group_create
    \/ ResourceUtils_init
    \/ get_resource
    \/ delete
    \/ tag
    \/ ExternalWrite
    \/ Exit

Spec == Init /\ [][Next]_vars

----------------------------------------------------------------------------
(* API-version resolution on its own, against every declaration a provider *)
(* may make within the bounds                                              *)

InitResolve ==
    /\ pc = "idle"
    /\ cmd = "none"
    /\ args = NoArgs
    /\ ret = NoResult
    /\ calls = <<>>
    /\ self = NoSelf
    /\ fetched = NoResource
    /\ providers \in [{NS_N} -> Catalogs]
    /\ groups = {G_g}
    /\ resource = InitialResource

ResolveApiVersion ==
    /\ pc = "idle"
    /\ \E a \in ResolveInputs :
        /\ cmd' = "_resolve_api_version"
        /\ args' = a
        /\ calls' = << Call("providers.get", NoAddress, a.namespace, NoResource,
                            a.namespace \in DOMAIN providers) >>
        /\ ret' = _resolve_api_version(providers, a.namespace, a.parent, a.resource_type)
    /\ pc' = "done"
    /\ UNCHANGED <<self, fetched, providers, groups, resource>>

ResolveApiVersionById ==
    /\ pc = "idle"
    /\ \E id \in ResolveIds :
        /\ cmd' = "_resolve_api_version_by_id"
        /\ args' = [resource_id |-> id]
        /\ calls' = IF is_valid_resource_id(id)
                    THEN << Call("providers.get", NoAddress,
                                 parse_resource_id(id).namespace, NoResource, TRUE) >>
                    ELSE <<>>
        /\ ret' = _resolve_api_version_by_id(providers, id)
    /\ pc' = "done"
    /\ UNCHANGED <<self, fetched, providers, groups, resource>>

NextResolve ==
    \/ ResolveApiVersion
    \/ ResolveApiVersionById
    \/ Exit

SpecResolve == InitResolve /\ [][NextResolve]_vars

----------------------------------------------------------------------------
(* Vocabulary of the properties *)

\* a and b are the same string up to letter case
SameIgnoringCase(a, b) ==
    /\ Len(a) = Len(b)
    /\ \A i \in 1..Len(a) : LowerChar(a[i]) = LowerChar(b[i])

\* v contains 'preview' in any letter case
IsPreview(v) ==
    \E i \in 1..(Len(v) - Len(PREVIEW) + 1) :
        SameIgnoringCase(SubSeq(v, i, i + Len(PREVIEW) - 1), PREVIEW)

\* v is what the selection rule picks from versions: the first version that
\* is no preview, or the first one when all are previews
IsSelection(v, versions) ==
    IF \E k \in 1..Len(versions) : ~IsPreview(versions[k])
    THEN \E k \in 1..Len(versions) :
            /\ ~IsPreview(versions[k])
            /\ \A j \in 1..(k - 1) : IsPreview(versions[j])
            /\ v = versions[k]
    ELSE v = versions[1]

\* a finished call of resolve() whose namespace the service knows
ResolveDone ==
    /\ pc = "done"
    /\ cmd = "_resolve_api_version"
    /\ args.namespace \in DOMAIN providers

\* the catalog and the effective type of that call
ResolveCatalog == providers[args.namespace]
ResolveEffectiveType ==
    IF args.parent # None /\ args.parent # <<>>
    THEN Split(args.parent, SLASH)[1]
    ELSE args.resource_type
\* the catalog entries the effective type matches
ResolveMatching ==
    { i \in 1..Len(ResolveCatalog) :
        SameIgnoringCase(ResolveCatalog[i].resource_type, ResolveEffectiveType) }

\* C1, as stated: whenever the effective type matches a catalog entry that
\* declares versions, resolve() returns the version the selection rule picks
\* from that entry (the first non-preview one, else the first one).
C1_AsStated ==
    ResolveDone =>
        LET cat == ResolveCatalog
        IN  \A i \in ResolveMatching :
                cat[i].api_versions # <<>> =>
                    /\ ret.kind = "value"
                    /\ IsSelection(ret.val, cat[i].api_versions)

\* C1, amended: whenever the effective type matches exactly one catalog entry
\* and that entry declares versions, resolve() returns the first non-preview
\* version of the entry, or its first version when all are previews; when it
\* matches more than one entry resolve() fails with NoApiVersionAvailable.
C1_SelectionRule ==
    ResolveDone =>
        LET cat == ResolveCatalog
            matching == ResolveMatching
        IN  /\ \A i \in matching :
                (matching = {i} /\ cat[i].api_versions # <<>>) =>
                    /\ ret.kind = "value"
                    /\ IsSelection(ret.val, cat[i].api_versions)
            /\ Cardinality(matching) > 1 =>
                    /\ ret.kind = "error"
                    /\ ret.err = NoApiVersionAvailable

\* C1 witness: a single match whose first declared version is a preview and
\* whose second is returned
C1_Witness ==
    /\ ResolveDone
    /\ \E i \in ResolveMatching :
        /\ ResolveMatching = {i}
        /\ Len(ResolveCatalog[i].api_versions) = 2
        /\ IsPreview(ResolveCatalog[i].api_versions[1])
        /\ ret.kind = "value"
        /\ ret.val = ResolveCatalog[i].api_versions[2]

\* C2: resolve() fails with UnknownResourceType, returning no version, exactly
\* when no declared resource-type name equals the effective type up to letter
\* case.
C2_UnknownResourceType ==
    ResolveDone =>
        IF ResolveMatching = {}
        THEN ret.kind = "error" /\ ret.err = UnknownResourceType /\ ret.val = None
        ELSE ret.err # UnknownResourceType

\* C2 witness: the only declared name that matches differs from the effective
\* type in letter case, and a version is returned
C2_Witness ==
    /\ ResolveDone
    /\ ResolveMatching # {}
    /\ \A i \in ResolveMatching : ResolveCatalog[i].resource_type # ResolveEffectiveType
    /\ ret.kind = "value"

\* a finished call of resolveById()
ByIdDone == pc = "done" /\ cmd = "_resolve_api_version_by_id"

\* the '/'-separated segments of its id: the namespace is the 7th, the
\* top-level type the 8th
ByIdSegments == Split(args.resource_id, SLASH)
\* the catalog entries that segment t matches
EntriesOf(catalog, t) ==
    { i \in 1..Len(catalog) : SameIgnoringCase(catalog[i].resource_type, t) }

\* C3: resolveById builds the parent path 'type/name' for a child id and
\* 'type/name/childType/childName' for a grandchild id, none for a top-level
\* id, and what it returns is decided by the catalog entry of the top-level
\* type alone: the version selected from that entry, UnknownResourceType when
\* the catalog has no such entry.
C3_TopLevelType ==
    ByIdDone =>
        LET seg == ByIdSegments
            cat == providers[seg[7]]
            top == EntriesOf(cat, seg[8])
        IN  Len(seg) >= MinIdSegments =>
              /\ ParentAndType(parse_resource_id(args.resource_id)).parent =
                    (IF Len(seg) >= 13 THEN Join(SubSeq(seg, 8, 11), <<SLASH>>)
                     ELSE IF Len(seg) >= 11 THEN Join(SubSeq(seg, 8, 9), <<SLASH>>)
                     ELSE None)
              /\ ret.kind = "value" =>
                    \E i \in top : IsSelection(ret.val, cat[i].api_versions)
              /\ top = {} => ret.err = UnknownResourceType
              /\ \A i \in top :
                    (top = {i} /\ cat[i].api_versions # <<>>) => ret.kind = "value"

\* C3 witness: a child id whose leaf type is declared too, with versions of
\* which none is the one returned
C3_Witness ==
    /\ ByIdDone
    /\ Len(ByIdSegments) = 11
    /\ ret.kind = "value"
    /\ \E j \in EntriesOf(providers[ByIdSegments[7]], ByIdSegments[10]) :
        LET leaf == providers[ByIdSegments[7]][j].api_versions
        IN  /\ leaf # <<>>
            /\ \A k \in 1..Len(leaf) : leaf[k] # ret.val

----------------------------------------------------------------------------
(* Properties of the facade, the builders and resource-group creation *)

\* an optional argument that was supplied, and not as an empty string
Given(x) == x # None /\ x # <<>>

\* s.endswith(suffix)
EndsWith(s, suffix) ==
    /\ Len(suffix) <= Len(s)
    /\ SubSeq(s, Len(s) - Len(suffix) + 1, Len(s)) = suffix

\* the texts of the results, as the specification writes them
SPEC_SUBSCRIPTIONS == <<"/", "s", "u", "b", "s", "c", "r", "i", "p", "t", "i", "o", "n", "s", "/">>
SPEC_RESOURCE_GROUPS == <<"/", "r", "e", "s", "o", "u", "r", "c", "e", "G", "r", "o", "u", "p", "s", "/">>
SPEC_STARTSWITH == <<"s", "t", "a", "r", "t", "s", "w", "i", "t", "h", "(", "t", "a", "g", "n", "a", "m", "e", ",", " ", "'">>
SPEC_TAGNAME_EQ == <<"t", "a", "g", "n", "a", "m", "e", " ", "e", "q", " ", "'">>
SPEC_TAGVALUE_EQ == <<"t", "a", "g", "v", "a", "l", "u", "e", " ", "e", "q", " ", "'">>
SPEC_AND == <<" ", "a", "n", "d", " ">>
SPEC_TAGNAME == <<"t", "a", "g", "n", "a", "m", "e">>
SPEC_TAGVALUE == <<"t", "a", "g", "v", "a", "l", "u", "e">>
SPEC_QUOTE == <<"'">>

\* a run of show_resource, delete_resource or tag_resource
FacadeRun == cmd \in {"show_resource", "delete_resource", "tag_resource"}
\* the caller gave an id / gave at least one coordinate
IdGiven == Given(args.call.resource_id)
CoordinateGiven ==
    \/ Given(args.call.resource_group_name)
    \/ Given(args.call.resource_provider_namespace)
    \/ Given(args.call.parent_resource_path)
    \/ Given(args.call.resource_type)
    \/ Given(args.call.resource_name)

SameButTags(r1, r2) ==
    /\ r1.location = r2.location
    /\ r1.plan = r2.plan
    /\ r1.properties = r2.properties
    /\ r1.kind = r2.kind
    /\ r1.managed_by = r2.managed_by
    /\ r1.sku = r2.sku
    /\ r1.identity = r2.identity

FetchOps == {"resources.get", "resources.get_by_id"}
UpdateOps == {"resources.create_or_update", "resources.create_or_update_by_id"}

\* the calls of a finished tag(): a fetch, then one update addressed alike
\* that carries the fetched fields and the new tags
TagCallsAsClaimed ==
    (pc = "done" /\ cmd = "tag_resource" /\ ret.kind = "value") =>
        LET n == Len(calls)
        IN  /\ n >= 2
            /\ calls[n - 1].op \in FetchOps
            /\ calls[n].op \in UpdateOps
            /\ Cardinality({ i \in 1..n : calls[i].op \in UpdateOps }) = 1
            /\ calls[n].addr = calls[n - 1].addr
            /\ (calls[n].op = "resources.create_or_update_by_id")
                  = (calls[n - 1].op = "resources.get_by_id")
            /\ SameButTags(calls[n].payload, fetched)
            /\ calls[n].payload.tags = args.tags

\* the update step of tag(), taken while the resource is as it was fetched
TagUpdateUndisturbed ==
    /\ pc = "tag_fetched"
    /\ pc' = "done"
    /\ resource = fetched

\* C5: tag(newTags) fetches the resource and then issues exactly one update,
\* addressed as the fetch was, whose payload is the fetched location, plan,
\* properties, kind, managedBy, sku and identity with tags = newTags; when
\* nothing changed the resource in between, the update leaves those seven
\* fields of the remote resource as they were and sets its tags to newTags.
C5_TagReplacesOnlyTags ==
    /\ []TagCallsAsClaimed
    /\ [][TagUpdateUndisturbed =>
            /\ resource'.exists
            /\ SameButTags(resource', resource)
            /\ resource'.tags = args.tags]_vars

\* C5 witness: tag() by coordinates has ended and the resource carries the
\* new tags, which are not the ones it started with
C5_Witness ==
    /\ pc = "done"
    /\ cmd = "tag_resource"
    /\ ret.kind = "value"
    /\ calls[Len(calls)].op = "resources.create_or_update"
    /\ resource.exists
    /\ resource.tags = args.tags
    /\ args.tags # InitialResource.tags

\* a finished call of the scope builder
ScopeDone == pc = "done" /\ cmd = "_build_policy_scope"

\* C6: with a non-empty resource group and a non-empty explicit scope the
\* scope builder fails with RedundantResourceGroup and returns no scope,
\* whatever the subscription id.
C6_RedundantResourceGroup ==
    (ScopeDone /\ Given(args.resource_group_name) /\ Given(args.scope)) =>
        /\ ret.kind = "error"
        /\ ret.err = RedundantResourceGroup
        /\ ret.val = None

\* C6 witness: such a call has failed
C6_Witness ==
    /\ ScopeDone
    /\ Given(args.resource_group_name)
    /\ Given(args.scope)
    /\ ret.err = RedundantResourceGroup

\* C7: otherwise the scope builder returns the explicit scope unchanged if it
\* is non-empty, else /subscriptions/{id}/resourceGroups/{group} if the group
\* is non-empty, else /subscriptions/{id}.
C7_ScopeValue ==
    (ScopeDone /\ ~(Given(args.resource_group_name) /\ Given(args.scope))) =>
        /\ ret.kind = "value"
        /\ ret.val =
              IF Given(args.scope) THEN args.scope
              ELSE IF Given(args.resource_group_name)
              THEN SPEC_SUBSCRIPTIONS \o args.subscription_id
                   \o SPEC_RESOURCE_GROUPS \o args.resource_group_name
              ELSE SPEC_SUBSCRIPTIONS \o args.subscription_id

\* C7 witness: a group-level scope has been returned
C7_Witness ==
    /\ ScopeDone
    /\ Given(args.resource_group_name)
    /\ ~Given(args.scope)
    /\ ret.kind = "value"
    /\ EndsWith(ret.val, SPEC_RESOURCE_GROUPS \o args.resource_group_name)

\* a finished call of the filter builder
FilterDone == pc = "done" /\ cmd = "_list_resources_odata_filter_builder"
\* the tag argument is present: a non-empty dict or a non-empty string
TagPresent == args.tag \notin {TagNone, TagEmptyDict, TagStr(<<>>)}
\* its key and its value (a plain string is a key without a value)
TagKey == IF args.tag.dict THEN args.tag.items[1].key ELSE args.tag.str
TagValue == IF args.tag.dict THEN args.tag.items[1].value ELSE <<>>

\* C8: the filter builder fails with ConflictingFilter, returning no filter,
\* whenever a tag is present together with a name or a location; a tag with
\* neither of them (with or without group and type) does not fail.
C8_ConflictingFilter ==
    (FilterDone /\ TagPresent) =>
        IF Given(args.name) \/ Given(args.location)
        THEN ret.kind = "error" /\ ret.err = ConflictingFilter /\ ret.val = None
        ELSE ret.kind = "value"

\* C8 witness: a tag with a location and no name has been refused
C8_Witness ==
    /\ FilterDone
    /\ TagPresent
    /\ Given(args.location)
    /\ ~Given(args.name)
    /\ ret.err = ConflictingFilter

\* what the filter must end with for a tag key and value, and what it must
\* not hold
PrefixClauseOnly ==
    /\ EndsWith(ret.val, SPEC_STARTSWITH \o SubSeq(TagKey, 1, Len(TagKey) - 1) \o SPEC_QUOTE)
    /\ ~Contains(ret.val, SPEC_TAGVALUE)
    /\ ~Contains(ret.val, SPEC_TAGNAME_EQ)
NameClause ==
    IF TagValue # <<>>
    THEN EndsWith(ret.val, SPEC_TAGNAME_EQ \o TagKey \o SPEC_QUOTE \o SPEC_AND
                           \o SPEC_TAGVALUE_EQ \o TagValue \o SPEC_QUOTE)
    ELSE /\ EndsWith(ret.val, SPEC_TAGNAME_EQ \o TagKey \o SPEC_QUOTE)
         /\ ~Contains(ret.val, SPEC_TAGVALUE)
KeyEndsWithStar == TagKey # <<>> /\ TagKey[Len(TagKey)] = "*"
\* a finished call with a tag and neither name nor location
TagFiltered == FilterDone /\ TagPresent /\ ~Given(args.name) /\ ~Given(args.location)

\* C9, as stated: for every present tag, a key ending with '*' gives exactly
\* the startswith clause and no tagvalue clause; any other key gives
\* tagname eq '{key}', followed by tagvalue eq '{value}' iff the value is
\* non-empty.
C9_AsStated ==
    TagFiltered =>
        /\ ret.kind = "value"
        /\ IF KeyEndsWithStar THEN PrefixClauseOnly ELSE NameClause

\* C9, amended: the same for every present tag whose key is non-empty; for a
\* present tag with an empty key the filter holds no tag clause at all.
C9_TagClause ==
    TagFiltered =>
        /\ ret.kind = "value"
        /\ IF TagKey = <<>>
           THEN ~Contains(ret.val, SPEC_TAGNAME) /\ ~Contains(ret.val, SPEC_TAGVALUE)
           ELSE IF KeyEndsWithStar THEN PrefixClauseOnly ELSE NameClause

\* C9 witness: a key ending with '*' and a non-empty value gave the prefix
\* clause after a group clause
C9_Witness ==
    /\ TagFiltered
    /\ KeyEndsWithStar
    /\ Len(TagKey) > 1
    /\ TagValue # <<>>
    /\ Given(args.resource_group_name)
    /\ EndsWith(ret.val, SPEC_AND \o SPEC_STARTSWITH
                         \o SubSeq(TagKey, 1, Len(TagKey) - 1) \o SPEC_QUOTE)

\* C10: create_resource_group first checks existence of the name; when the
\* check says the name is taken the command fails with AlreadyExists and has
\* issued no create_or_update; a create_or_update call always comes right
\* after an existence check, of the same name, that answered false.
C10_CheckBeforeCreate ==
    cmd = "create_resource_group" =>
        /\ calls # <<>>
        /\ calls[1].op = "resource_groups.check_existence"
        /\ calls[1].name = args.resource_group_name
        /\ calls[1].result =>
              /\ pc = "done"
              /\ ret.kind = "error"
              /\ ret.err = AlreadyExists
              /\ \A i \in 1..Len(calls) : calls[i].op # "resource_groups.create_or_update"
        /\ \A i \in 1..Len(calls) :
              calls[i].op = "resource_groups.create_or_update" =>
                  /\ i > 1
                  /\ calls[i - 1].op = "resource_groups.check_existence"
                  /\ calls[i - 1].name = calls[i].name
                  /\ ~calls[i - 1].result

\* C10 witness: the name was taken and the command has failed
C10_Witness ==
    /\ cmd = "create_resource_group"
    /\ pc = "done"
    /\ calls[1].result
    /\ ret.err = AlreadyExists

----------------------------------------------------------------------------
(* Properties of the facade: normalization, the lost update, local errors *)

\* construction went through: the object holds its fields
Constructed == FacadeRun /\ self # NoSelf

\* the caller's resource type has a '/' in it, and neither a namespace nor a
\* parent path came with it
CompoundTypeGiven ==
    /\ Given(args.call.resource_type)
    /\ \E i \in 1..Len(args.call.resource_type) : args.call.resource_type[i] = "/"
    /\ ~Given(args.call.resource_provider_namespace)
    /\ ~Given(args.call.parent_resource_path)

\* where the first '/' of the caller's resource type is
FirstSlash ==
    CHOOSE i \in 1..Len(args.call.resource_type) :
        /\ args.call.resource_type[i] = "/"
        /\ \A j \in 1..(i - 1) : args.call.resource_type[j] # "/"

\* C11: when the resource type contains '/' and neither a namespace nor a
\* parent path was supplied, the constructed object's namespace is the text
\* before the first '/' and its resource type is all the text after the first
\* '/' (further '/' segments included); otherwise the namespace and the
\* resource type are the ones supplied.
C11_AsStated ==
    Constructed =>
        IF CompoundTypeGiven
        THEN /\ self.resource_provider_namespace
                  = SubSeq(args.call.resource_type, 1, FirstSlash - 1)
             /\ self.resource_type
                  = SubSeq(args.call.resource_type, FirstSlash + 1,
                           Len(args.call.resource_type))
        ELSE /\ self.resource_provider_namespace
                  = args.call.resource_provider_namespace
             /\ self.resource_type = args.call.resource_type

\* tag() has fetched the resource and another client has changed it since
ChangedSinceFetch ==
    /\ pc = "tag_fetched"
    /\ resource # fetched

\* the update step of tag(), taken after such a change
TagUpdateDisturbed ==
    /\ ChangedSinceFetch
    /\ pc' = "done"

\* C12: between the fetch and the update of tag() nothing holds the resource:
\* whenever another client has changed it after the fetch, the update can
\* still be taken, it is the call right after the fetch, the service accepts
\* it, tag() ends without an error, and the resource is then the fetched
\* location, plan, properties, kind, managedBy, sku and identity with the new
\* tags, whatever the other client had written: properties it had replaced
\* are back to the fetched ones.
C12_LostUpdate ==
    /\ [](ChangedSinceFetch =>
            /\ ENABLED tag
            /\ calls[Len(calls)].op \in FetchOps)
    /\ [][TagUpdateDisturbed =>
            /\ Len(calls') = Len(calls) + 1
            /\ calls'[Len(calls')].op \in UpdateOps
            /\ calls'[Len(calls')].result
            /\ ret'.kind = "value"
            /\ resource'.exists
            /\ SameButTags(resource', fetched)
            /\ resource'.tags = args.tags
            /\ (resource.properties # fetched.properties) =>
                  resource'.properties # resource.properties]_vars

\* C12 witness: after the fetch of a tag() another client has replaced the
\* properties of the resource, and the update is the next step of tag()
C12_Witness ==
    /\ cmd = "tag_resource"
    /\ pc = "tag_fetched"
    /\ calls[Len(calls)].op \in FetchOps
    /\ resource.exists
    /\ resource.properties # fetched.properties

\* the error kinds that are raised locally
LocalErrorKinds ==
    {AmbiguousResourceReference, InvalidResourceId, UnknownResourceType,
     NoApiVersionAvailable}

\* a run of show_resource, delete_resource or tag_resource has ended with one
LocalError ==
    /\ FacadeRun
    /\ pc = "done"
    /\ ret.kind = "error"
    /\ ret.err \in LocalErrorKinds

\* the remote calls that change a resource
MutatingOps ==
    {"resources.delete", "resources.delete_by_id",
     "resources.create_or_update", "resources.create_or_update_by_id"}

\* C13: a run of show_resource, delete_resource or tag_resource that ends
\* with AmbiguousResourceReference, InvalidResourceId, UnknownResourceType or
\* NoApiVersionAvailable ended in construction: no object was built, nothing
\* was fetched, none of the calls it issued is a delete, delete_by_id,
\* create_or_update or create_or_update_by_id, and the step that raised the
\* error is the first step of the run and left the resource and the resource
\* groups of the service as they were.
C13_NoPartialState ==
    /\ [](LocalError =>
            /\ self = NoSelf
            /\ fetched = NoResource
            /\ \A i \in 1..Len(calls) : calls[i].op \notin MutatingOps)
    /\ [][(~LocalError /\ LocalError') =>
            /\ pc = "idle"
            /\ resource' = resource
            /\ groups' = groups]_vars

\* C13 witness: delete_resource has failed with NoApiVersionAvailable after
\* asking the provider for its types, and the resource is still there
C13_Witness ==
    /\ cmd = "delete_resource"
    /\ pc = "done"
    /\ ret.err = NoApiVersionAvailable
    /\ Len(calls) = 1
    /\ calls[1].op = "providers.get"
    /\ resource.exists

====
